---- MODULE Spec2Model ----
(***************************************************************************)
(* Cross-frame remote-invocation proxy, element registry and toolbar       *)
(* integration of colabtools.                                              *)
(*                                                                         *)
(*   SpecFW        the Frame-Walk transport: proxy scanning the frames     *)
(*   SpecBC        the Broadcast transport: proxy on a BroadcastChannel    *)
(*   FairSpecBC    SpecBC with timers that fire and time that passes       *)
(*   SpecProxy     a page that uses one of the two transports              *)
(*   SpecBCPair    two Broadcast calls outstanding on one channel          *)
(*   SpecDispatch  processMessage on the proxy of a plain element          *)
(*   SpecRegister  createElement, custom-element definitions and calls     *)
(*   FairSpecRegister  SpecRegister with microtasks that run               *)
(*   SpecToolbar   addToolbarButton and the check_auth request             *)
(*   SpecInterleave  registrations of several elements interleaved         *)
(*   SpecBCWindow  the Broadcast proxy's synchronous run, step by step     *)
(*   SpecDialog    the Deploy to Cloud dialog after show()                 *)
(*                                                                         *)
(* JavaScript runs one task at a time.  An action of SpecBC is one task    *)
(* of the event loop together with the microtasks (promise reactions, the  *)
(* rest of an async function after its await) that run before the next     *)
(* task.  SpecFW follows the one synchronous run of proxy statement by     *)
(* statement (fwPc), and then the promise of the call it forwards to.      *)
(* In SpecRegister a continuation behind whenDefined is an action of its   *)
(* own: it runs once the tag is defined, in the order of the waits.        *)
(***************************************************************************)
EXTENDS Integers, Sequences, FiniteSets, TLC

\* ------------------------------------------------------------------------
\* Bounds of the model
\* ------------------------------------------------------------------------
MaxFrames == 3
MaxPosts == 3
MaxTicks == 3

\* ------------------------------------------------------------------------
\* Value domains
\* ------------------------------------------------------------------------
\* Element ids: the guids elements are registered under.  They name own
\* entries of a registry object, never a member it inherits ("constructor").
Ids == {"a", "b"}

\* Messages a caller forwards: JSON-serializable request objects, of which
\* only the method matters to the transports.
Msgs == {"exists", "call"}

\* JavaScript's undefined.
Undefined == <<"undefined", 0>>

\* defaultResponse arguments of the Frame-Walk proxy.
FWDefaults == {Undefined, <<"default", 1>>, <<"default", 2>>}

\* ========================================================================
\* Frame-Walk transport
\* ========================================================================
VARIABLES
  frames,          \* window.parent.frames: sequence of frame records
  fwPc,            \* position of the proxy call
  fwId,            \* argument id
  fwMsg,           \* argument msg
  fwDefault,       \* argument defaultResponse
  fwI,             \* loop variable i (1-based)
  fwElementProxy,  \* local elementProxy: 0 is null, n the proxy found in frame n
  fwCaught,        \* frames whose access error the catch block swallowed
  fwRead,          \* frames whose registry was read (html.elements[id])
  fwCalls,         \* calls made on proxies: sequence of <<frame, msg>>
  fwCallee,        \* what elementProxy.call(msg) did: threw, or its promise
  fwOutcome        \* state of the promise returned by proxy

fwVars == <<frames, fwPc, fwId, fwMsg, fwDefault, fwI, fwElementProxy,
            fwCaught, fwRead, fwCalls, fwCallee, fwOutcome>>

\* State of the Broadcast transport (its operations are further down).
VARIABLES
  now,         \* the clock
  posts,       \* messages other contexts have posted so far
  bcPc,        \* per call: "idle", "waiting" (at the await), "done"
  bcId,        \* per call: argument id, the name of its channel
  bcDefault,   \* per call: argument defaultResponse
  bcOpen,      \* per call: the channel bc exists and is not closed
  bcInbox,     \* per call: message events queued for bc, oldest first
  bcReply,     \* per call: what the listener promise resolved with
  bcHandled,   \* per call: how often the listener called resolve(reply)
  bcTimer,     \* per call: "none", "armed", "fired"
  bcArmedAt,   \* per call: the time setTimeout was called
  bcDropped,   \* per call: replies to its id that found bc closed
  bcOutcome    \* per call: state of the promise returned by proxy

bcVars == <<now, posts, bcPc, bcId, bcDefault, bcOpen, bcInbox, bcReply,
            bcHandled, bcTimer, bcArmedAt, bcDropped, bcOutcome>>

\* State of the element registry and its dispatcher (_html.js; operations
\* further down).
VARIABLES
  dom,          \* guids for which document.getElementById finds an element
  defined,      \* custom-element tags whose definition is available
  elements,     \* window.google.colab.html.elements: guid -> proxy
  globalEl,     \* the variable el that initialize assigns without declaring
  callbacks,    \* the Map callbacks: listener key -> closure (0: no entry)
  nextClosure,  \* closures created so far, plus one
  listeners,    \* listeners attached to elements: <<guid, type, closure>>
  attrs,        \* per element: its attribute (set by whom), or "none"
  props,        \* per element: its property (set by whom), or "none"
  inits,        \* the createElement calls so far, with their initialize promise
  hcalls,       \* the calls made on proxies so far, with their promise
  awaiting      \* continuations behind await customElements.whenDefined(tag)

hVars == <<dom, defined, elements, globalEl, callbacks, nextClosure,
           listeners, attrs, props, inits, hcalls, awaiting>>

\* State of the toolbar integration (toolbar-integration.js).
VARIABLES
  tbToolbar,    \* the .colab-toolbar element, if any, and its children
  tbChecks,     \* the check_auth requests so far and their outcome
  tbDetached,   \* buttons created but not inserted anywhere
  tbDialogs,    \* deploy dialogs shown by clicks on a button
  tbLogged      \* console.error calls of the catch handler

tbVars == <<tbToolbar, tbChecks, tbDetached, tbDialogs, tbLogged>>

\* State of the Deploy to Cloud dialog (deploy_to_cloud_dialog.js).
VARIABLES
  dgOpen,          \* the dialog is on screen
  dgProjects,      \* the project select: "loading", "loaded", "failed"
  dgProject,       \* this.selectedProject_
  dgService,       \* this.selectedService_
  dgRegion,        \* this.selectedRegion_
  dgName,          \* this.serviceName_
  dgOkEnabled,     \* as last set by setOkEnabled
  dgCancelEnabled, \* as last set by setCancelEnabled
  dgOkText,        \* as last set by setOkText
  dgOkCallback,    \* as last set by setOkCallback: "deploy" or "close"
  dgStatus,        \* the status section
  dgClicks,        \* OK clicks that ran handleDeploy_
  dgInFlight,      \* deploy requests not settled yet
  dgFires,         \* the calls of deferred.callback and deferred.errback
  dgRegionReqs,    \* the get_regions requests so far
  dgOptions,       \* what the region select shows
  dgRegionEnabled  \* the region select takes input

dgVars == <<dgOpen, dgProjects, dgProject, dgService, dgRegion, dgName,
            dgOkEnabled, dgCancelEnabled, dgOkText, dgOkCallback, dgStatus,
            dgClicks, dgInFlight, dgFires, dgRegionReqs, dgOptions,
            dgRegionEnabled>>

\* What the operations of one component leave alone.
notFW == <<bcVars, hVars, tbVars, dgVars>>
notBC == <<fwVars, hVars, tbVars, dgVars>>
notHtml == <<fwVars, bcVars, tbVars, dgVars>>
notToolbar == <<fwVars, bcVars, hVars, dgVars>>
notDialog == <<fwVars, bcVars, hVars, tbVars>>

vars == <<fwVars, bcVars, hVars, tbVars, dgVars>>

\* A frame is cross-origin (reading its contents throws, whatever it holds),
\* has no google.colab.html object, or exposes a registry html.elements that
\* the caller can read.  elements is the set of ids registered in the frame.
FrameKinds == {"crossOrigin", "noHtml", "registry"}

Frames ==
  { [kind |-> k, elements |-> e] :
      k \in {"crossOrigin", "registry"}, e \in SUBSET Ids }
  \cup { [kind |-> "noHtml", elements |-> {}] }

FrameLists == UNION { [1..n -> Frames] : n \in 0..MaxFrames }

Pending == [status |-> "pending", value |-> Undefined]
Resolved(v) == [status |-> "resolved", value |-> v]
Rejected(e) == [status |-> "rejected", value |-> e]
Threw(e) == [status |-> "threw", value |-> e]
NotCalled == [status |-> "none", value |-> Undefined]

\* What the proxy registered in frame n answers / fails with, and the error
\* reading a cross-origin frame n raises.
CallResult(n) == <<"result", n>>
CallError(n) == <<"error", n>>
AccessError(n) == <<"accessError", n>>

\* const html = frame.window.google.colab.html throws for a cross-origin frame.
AccessThrows(n) == frames[n].kind = "crossOrigin"

\* if (html) { elementProxy = html.elements[id]; }: the value of elementProxy
\* after the try block ran to its end on frame n (prev: its value before).
InspectFrame_IgnoresId(n, id, prev) ==
  IF frames[n].kind = "registry"
    THEN IF frames[n].elements # {} THEN n ELSE 0
    ELSE prev

InspectFrame(n, id, prev) ==
  IF frames[n].kind = "registry"
    THEN IF id \in frames[n].elements THEN n ELSE 0
    ELSE prev

\* if (elementProxy) { break; }
Breaks_Never(elementProxy) == FALSE

Breaks(elementProxy) == elementProxy # 0

\* catch (e) { /* Continue to the next frame. */ }: where the call stands
\* after frame i raised an access error.
CatchAccessError_Rethrows(i, outcome) ==
  [pc |-> "done", i |-> i, outcome |-> Rejected(AccessError(i))]

CatchAccessError(i, outcome) ==
  [pc |-> "loop", i |-> i + 1, outcome |-> outcome]

\* return elementProxy.call(msg) in an async function: the promise of proxy
\* rejects when the call throws and follows the promise the call returns.
ReturnCall_Swallows(callee) ==
  CASE callee.status = "resolved" -> Resolved(callee.value)
    [] callee.status \in {"threw", "rejected"} -> Resolved(Undefined)
    [] OTHER -> Pending

ReturnCall(callee) ==
  CASE callee.status = "threw" -> Rejected(callee.value)
    [] callee.status = "rejected" -> Rejected(callee.value)
    [] callee.status = "resolved" -> Resolved(callee.value)
    [] OTHER -> Pending

InitFWVars ==
  /\ fwPc = "idle"
  /\ fwId = "a"
  /\ fwMsg = "exists"
  /\ fwDefault = Undefined
  /\ fwI = 1
  /\ fwElementProxy = 0
  /\ fwCaught = {}
  /\ fwRead = {}
  /\ fwCalls = <<>>
  /\ fwCallee = NotCalled
  /\ fwOutcome = Pending

\* proxy(id, msg, defaultResponse) is called: elementProxy = null, i = 0.
FWStart ==
  /\ fwPc = "idle"
  /\ \E id \in Ids, m \in Msgs, d \in FWDefaults :
       /\ fwId' = id
       /\ fwMsg' = m
       /\ fwDefault' = d
  /\ fwI' = 1
  /\ fwElementProxy' = 0
  /\ fwPc' = "loop"
  /\ UNCHANGED <<frames, fwCaught, fwRead, fwCalls, fwCallee, fwOutcome>>
  /\ UNCHANGED notFW

\* One iteration of the for loop, or its exit when i reaches frames.length.
FWInspect ==
  /\ fwPc = "loop"
  /\ IF fwI > Len(frames)
       THEN /\ fwPc' = "after"
            /\ UNCHANGED <<fwI, fwElementProxy, fwCaught, fwRead, fwOutcome>>
       ELSE IF AccessThrows(fwI)
         THEN LET c == CatchAccessError(fwI, fwOutcome) IN
              /\ fwCaught' = fwCaught \cup {fwI}
              /\ fwPc' = c.pc
              /\ fwI' = c.i
              /\ fwOutcome' = c.outcome
              /\ UNCHANGED <<fwElementProxy, fwRead>>
         ELSE /\ fwElementProxy' = InspectFrame(fwI, fwId, fwElementProxy)
              /\ fwRead' = IF frames[fwI].kind = "registry"
                             THEN fwRead \cup {fwI} ELSE fwRead
              /\ IF Breaks(fwElementProxy')
                   THEN /\ fwPc' = "after"
                        /\ fwI' = fwI
                   ELSE /\ fwPc' = "loop"
                        /\ fwI' = fwI + 1
              /\ UNCHANGED <<fwCaught, fwOutcome>>
  /\ UNCHANGED <<frames, fwId, fwMsg, fwDefault, fwCalls, fwCallee>>
  /\ UNCHANGED notFW

\* if (!elementProxy) return defaultResponse;
FWReturnDefault_NeverSettles ==
  /\ fwPc = "after"
  /\ fwElementProxy = 0
  /\ fwPc' = "done"
  /\ UNCHANGED <<frames, fwId, fwMsg, fwDefault, fwI, fwElementProxy,
                 fwCaught, fwRead, fwCalls, fwCallee, fwOutcome>>
  /\ UNCHANGED notFW

FWReturnDefault ==
  /\ fwPc = "after"
  /\ fwElementProxy = 0
  /\ fwOutcome' = Resolved(fwDefault)
  /\ fwPc' = "done"
  /\ UNCHANGED <<frames, fwId, fwMsg, fwDefault, fwI, fwElementProxy,
                 fwCaught, fwRead, fwCalls, fwCallee>>
  /\ UNCHANGED notFW

\* return elementProxy.call(msg): the call throws or returns a promise.
FWForward ==
  /\ fwPc = "after"
  /\ fwElementProxy # 0
  /\ fwCalls' = Append(fwCalls, <<fwElementProxy, fwMsg>>)
  /\ \/ fwCallee' = Threw(CallError(fwElementProxy))
     \/ fwCallee' = Pending
  /\ fwOutcome' = ReturnCall(fwCallee')
  /\ fwPc' = IF fwCallee'.status = "threw" THEN "done" ELSE "awaiting"
  /\ UNCHANGED <<frames, fwId, fwMsg, fwDefault, fwI, fwElementProxy,
                 fwCaught, fwRead>>
  /\ UNCHANGED notFW

\* The promise elementProxy.call returned settles; proxy's promise follows it.
FWCallSettles ==
  /\ fwPc = "awaiting"
  /\ \/ fwCallee' = Resolved(CallResult(fwElementProxy))
     \/ fwCallee' = Rejected(CallError(fwElementProxy))
  /\ fwOutcome' = ReturnCall(fwCallee')
  /\ fwPc' = "done"
  /\ UNCHANGED <<frames, fwId, fwMsg, fwDefault, fwI, fwElementProxy,
                 fwCaught, fwRead, fwCalls>>
  /\ UNCHANGED notFW

\* ========================================================================
\* Broadcast transport
\* ========================================================================
\* setTimeout(..., 20)
Delay == 20

\* The clock advances in steps of half the delay, MaxTicks times at most.
TickStep == Delay \div 2
MaxTime == MaxTicks * TickStep

\* The proxy calls: two callers, whose calls can be outstanding together.
Calls == {1, 2}

\* defaultResponse arguments of the Broadcast proxy.
BCDefaults == {Undefined, <<"default", 1>>}

\* Payloads of replies: values, and the texts of error fields.  An error
\* text is a failure description such as "boom": a non-empty string, which
\* if (reply.error) takes for an error.
ReplyValues == {<<"value", 1>>, <<"value", 2>>}
ErrorTexts == {<<"text", 1>>}

\* new Error(text)
NewError(text) == <<"Error", text[2]>>

\* const respId = 'id' + Math.random(): a fresh identifier for every call.
\* 0 stands for the missing id field of a message that has none.
RespId(c) == c

\* What other contexts post on a channel: for the correlation id of each
\* caller a reply carrying a value, a reply carrying an error, and a message
\* with that id whose method is not "reply".
ChannelMsgs ==
  { [method |-> "reply", id |-> RespId(r), value |-> v, error |-> Undefined] :
      r \in Calls, v \in ReplyValues }
  \cup { [method |-> "reply", id |-> RespId(r), value |-> Undefined, error |-> e] :
      r \in Calls, e \in ErrorTexts }
  \cup { [method |-> "call", id |-> RespId(r), value |-> Undefined,
          error |-> Undefined] : r \in Calls }

\* The request of another caller as it arrives on the channel: it carries the
\* sender's correlation id in its reply field and has no id field.
Request(m) == [method |-> m, id |-> 0, value |-> Undefined, error |-> Undefined]

NoReply == [method |-> "none", id |-> 0, value |-> Undefined, error |-> Undefined]


\* if (reply.method === 'reply' && reply.id === respId)
Matches_AnyReply(m, respId) == m.method = "reply"

Matches(m, respId) == m.method = "reply" /\ m.id = respId

\* resolve(reply) on the listener promise: a promise keeps its first value.
ResolveReply(current, m) == IF current = NoReply THEN m ELSE current

\* .then((reply) => { if (reply.error) throw new Error(reply.error);
\*                    return reply.value; })
ThenReply_WrongField(m) ==
  IF m.error # Undefined THEN Rejected(NewError(m.error)) ELSE Resolved(Undefined)

ThenReply_IgnoresError(m) == Resolved(m.value)

ThenReply(m) ==
  IF m.error # Undefined THEN Rejected(NewError(m.error)) ELSE Resolved(m.value)

\* Promise.race(values) and the promise of the async function: the first
\* settlement stays.
Settle(current, result) == IF current.status = "pending" THEN result ELSE current

\* if (defaultResponse !== undefined) { ... setTimeout ... }
ArmsTimer_Always(d) == TRUE

ArmsTimer(d) == d # Undefined

\* The timer task runs no earlier than Delay after setTimeout.
TimerDue_NoDelay(armedAt, t) == t >= armedAt

TimerDue(armedAt, t) == t >= armedAt + Delay

\* try { return await Promise.race(values); } finally { bc.close(); }: whether
\* bc is still open once the race settled with result.
OpenAfterFinally_OnlyOnSuccess(result) == result.status = "rejected"

OpenAfterFinally_Never(result) == TRUE

OpenAfterFinally(result) == FALSE

\* The channels a message posted on channel name id is queued for.
Destinations(id) == { c \in Calls : bcOpen[c] /\ bcId[c] = id }

InitBCVars ==
  /\ now = 0
  /\ posts = 0
  /\ bcPc = [c \in Calls |-> "idle"]
  /\ bcId = [c \in Calls |-> "a"]
  /\ bcDefault = [c \in Calls |-> Undefined]
  /\ bcOpen = [c \in Calls |-> FALSE]
  /\ bcInbox = [c \in Calls |-> <<>>]
  /\ bcReply = [c \in Calls |-> NoReply]
  /\ bcHandled = [c \in Calls |-> 0]
  /\ bcTimer = [c \in Calls |-> "none"]
  /\ bcArmedAt = [c \in Calls |-> 0]
  /\ bcDropped = [c \in Calls |-> {}]
  /\ bcOutcome = [c \in Calls |-> Pending]

\* proxy(id, msg, defaultResponse) up to its await: opens the channel,
\* publishes the request, installs the listener and arms the timer.
BCStart(c) ==
  /\ bcPc[c] = "idle"
  /\ now + Delay <= MaxTime
  /\ \E id \in Ids, m \in Msgs, d \in BCDefaults :
       /\ bcId' = [bcId EXCEPT ![c] = id]
       /\ bcDefault' = [bcDefault EXCEPT ![c] = d]
       /\ bcInbox' = [o \in Calls |->
                        IF o \in Destinations(id)
                          THEN Append(bcInbox[o], Request(m))
                          ELSE bcInbox[o]]
       /\ bcTimer' = [bcTimer EXCEPT ![c] =
                        IF ArmsTimer(d) THEN "armed" ELSE "none"]
  /\ bcOpen' = [bcOpen EXCEPT ![c] = TRUE]
  /\ bcArmedAt' = [bcArmedAt EXCEPT ![c] = now]
  /\ bcPc' = [bcPc EXCEPT ![c] = "waiting"]
  /\ UNCHANGED <<now, posts, bcReply, bcHandled, bcDropped, bcOutcome>>
  /\ UNCHANGED notBC

\* Another browsing context posts m on the channel named id.
EnvPost ==
  /\ posts < MaxPosts
  /\ \E id \in Ids, m \in ChannelMsgs :
       /\ Destinations(id) # {}
       /\ bcInbox' = [o \in Calls |->
                        IF o \in Destinations(id)
                          THEN Append(bcInbox[o], m)
                          ELSE bcInbox[o]]
  /\ posts' = posts + 1
  /\ UNCHANGED <<now, bcPc, bcId, bcDefault, bcOpen, bcReply, bcHandled,
                 bcTimer, bcArmedAt, bcDropped, bcOutcome>>
  /\ UNCHANGED notBC

\* The message event task of call c's channel runs: bc.onmessage, then the
\* promise reactions it triggers, up to the return of proxy.
BCDeliver(c) ==
  /\ bcInbox[c] # <<>>
  /\ bcOpen[c]
  /\ LET m == Head(bcInbox[c])
         fresh == Matches(m, RespId(c)) /\ bcReply[c] = NoReply
         result == Settle(bcOutcome[c], ThenReply(m))
     IN
     /\ bcInbox' = [bcInbox EXCEPT ![c] = Tail(@)]
     /\ IF Matches(m, RespId(c))
          THEN /\ bcReply' = [bcReply EXCEPT ![c] = ResolveReply(@, m)]
               /\ bcHandled' = [bcHandled EXCEPT ![c] = @ + 1]
          ELSE UNCHANGED <<bcReply, bcHandled>>
     /\ IF fresh
          THEN /\ bcOutcome' = [bcOutcome EXCEPT ![c] = result]
               /\ bcOpen' = [bcOpen EXCEPT ![c] =
                               IF bcPc[c] = "waiting"
                                 THEN OpenAfterFinally(result) ELSE @]
               /\ bcPc' = [bcPc EXCEPT ![c] = "done"]
          ELSE UNCHANGED <<bcOutcome, bcOpen, bcPc>>
  /\ UNCHANGED <<now, posts, bcId, bcDefault, bcTimer, bcArmedAt, bcDropped>>
  /\ UNCHANGED notBC

\* A message event task finds the channel closed: the event is not fired.
BCDrop(c) ==
  /\ bcInbox[c] # <<>>
  /\ ~bcOpen[c]
  /\ bcInbox' = [bcInbox EXCEPT ![c] = Tail(@)]
  /\ bcDropped' = [bcDropped EXCEPT ![c] =
                      IF Matches(Head(bcInbox[c]), RespId(c))
                        THEN @ \cup {Head(bcInbox[c])} ELSE @]
  /\ UNCHANGED <<now, posts, bcPc, bcId, bcDefault, bcOpen, bcReply,
                 bcHandled, bcTimer, bcArmedAt, bcOutcome>>
  /\ UNCHANGED notBC

\* The timer task runs: resolve(defaultResponse), then the promise reactions
\* it triggers, up to the return of proxy.
BCTimerFire(c) ==
  /\ bcTimer[c] = "armed"
  /\ TimerDue(bcArmedAt[c], now)
  /\ bcTimer' = [bcTimer EXCEPT ![c] = "fired"]
  /\ LET result == Settle(bcOutcome[c], Resolved(bcDefault[c])) IN
     /\ bcOutcome' = [bcOutcome EXCEPT ![c] = result]
     /\ bcOpen' = [bcOpen EXCEPT ![c] =
                     IF bcPc[c] = "waiting" THEN OpenAfterFinally(result) ELSE @]
  /\ bcPc' = [bcPc EXCEPT ![c] = "done"]
  /\ UNCHANGED <<now, posts, bcId, bcDefault, bcInbox, bcReply, bcHandled,
                 bcArmedAt, bcDropped>>
  /\ UNCHANGED notBC

\* Time passes.
Tick ==
  /\ now + TickStep <= MaxTime
  /\ now' = now + TickStep
  /\ UNCHANGED <<posts, bcPc, bcId, bcDefault, bcOpen, bcInbox, bcReply,
                 bcHandled, bcTimer, bcArmedAt, bcDropped, bcOutcome>>
  /\ UNCHANGED notBC

\* ------------------------------------------------------------------------
\* Element registry and dispatcher (_html.js)
\* ------------------------------------------------------------------------
\* Bounds: createElement calls and calls on proxies in one run.
MaxRegs == 2
MaxMsgs == 2

Guids == {"g1", "g2"}
Tags == {"div", "my-widget"}
Keys == {"k1", "k2"}

\* tag.includes('-')
Hyphenated(tag) == tag \in {"my-widget"}

\* Values of the registry part are pairs <<text, number>>.
Null == <<"null", 0>>
None == <<"none", 0>>
True == <<"true", 0>>
MsgValue(v) == <<v, 0>>
ConfigValue(n) == <<"config", n>>
HError(text) == <<text, 0>>
NoProxy == [tag |-> "none", el |-> Null]
ElementOf(guid) == <<guid, 0>>

\* The configs a page may pass to createElement.  A config either carries
\* an attribute and a property or none; a listener field names the key of
\* the one "click" listener it lists, or "none".
Configs ==
  [guid : Guids, tag : Tags, attributes : BOOLEAN, properties : BOOLEAN,
   js_listeners : {"none"} \cup Keys, py_listeners : {"none"} \cup Keys]

\* The nine methods of processMessage, and one that is none of them.
Methods ==
  {"setProperty", "getProperty", "setAttribute", "getAttribute", "call",
   "addPythonEventListener", "addJsEventListener", "removeEventListener",
   "exists"}
OtherMethods == {"destroy", "ping"}

\* What the element's own method does when "call" invokes it.
AppOutcomes == {<<"returned", MsgValue("ret")>>, <<"threw", HError("app")>>}

\* The part of the state that applying a config or a message changes.
HState ==
  [callbacks |-> callbacks, nextClosure |-> nextClosure,
   listeners |-> listeners, attrs |-> attrs, props |-> props]

\* callbacks.set(key, callback); element.addEventListener(type, callback),
\* for a fresh closure of the given kind.  On a null element the entry is
\* made and addEventListener then throws.
AddListener(s, element, type, key, kind) ==
  [s EXCEPT !.callbacks[key] = s.nextClosure,
            !.nextClosure = @ + 1,
            !.listeners = IF element = Null THEN @
                          ELSE @ \cup {<<element, type, s.nextClosure, kind>>}]

addPythonEventListener(s, element, type, callbackName) ==
  AddListener(s, element, type, callbackName, "py")

addJsEventListener(s, element, type, callbackSrc) ==
  AddListener(s, element, type, callbackSrc, "js")

Returned(s, v) == [state |-> s, status |-> "returned", value |-> v]
Thrown(s, e) == [state |-> s, status |-> "threw", value |-> e]

\* The removeEventListener branch of processMessage.
RemoveListener_KeepsEntry(s, element, msg) ==
  Returned([s EXCEPT !.listeners =
              {l \in @ : ~(l[1] = element /\ l[2] = msg.name
                           /\ l[3] = s.callbacks[msg.value])}],
           True)

RemoveListener(s, element, msg) ==
  IF s.callbacks[msg.value] # 0
    THEN Returned([s EXCEPT !.listeners =
                     {l \in @ : ~(l[1] = element /\ l[2] = msg.name
                                  /\ l[3] = s.callbacks[msg.value])},
                            !.callbacks[msg.value] = 0],
                  True)
    ELSE Thrown(s, HError("Listener is not defined"))

\* processMessage(element, msg) in state s; app is what the element's own
\* method does if the message calls one.  First the default branch of the
\* switch.
InvalidMethod_Accepted(s) == Returned(s, True)

InvalidMethod(s) == Thrown(s, HError("Invalid method"))

processMessage(s, element, msg, app) ==
  CASE msg.method = "setProperty" ->
         Returned([s EXCEPT !.props[element] = MsgValue(msg.value)], True)
    [] msg.method = "getProperty" -> Returned(s, s.props[element])
    [] msg.method = "setAttribute" ->
         Returned([s EXCEPT !.attrs[element] = MsgValue(msg.value)], True)
    [] msg.method = "getAttribute" -> Returned(s, s.attrs[element])
    [] msg.method = "call" ->
         [state |-> s, status |-> app[1], value |-> app[2]]
    [] msg.method = "addPythonEventListener" ->
         Returned(addPythonEventListener(s, element, msg.name, msg.value),
                  True)
    [] msg.method = "addJsEventListener" ->
         Returned(addJsEventListener(s, element, msg.name, msg.value), True)
    [] msg.method = "removeEventListener" -> RemoveListener(s, element, msg)
    [] msg.method = "exists" -> Returned(s, True)
    [] OTHER -> InvalidMethod(s)

\* The body of initialize after its await: the config's attributes,
\* properties, js_listeners and py_listeners, in this order, applied to
\* target, the value of el at that moment.  On a null target the first
\* step that touches it throws a TypeError.
ApplyConfig(s, target, config, n) ==
  LET bad == target = Null
      t1 == config.attributes /\ bad
      s1 == IF config.attributes /\ ~bad
              THEN [s EXCEPT !.attrs[target] = ConfigValue(n)] ELSE s
      t2 == t1 \/ (config.properties /\ bad)
      s2 == IF ~t2 /\ config.properties
              THEN [s1 EXCEPT !.props[target] = ConfigValue(n)] ELSE s1
      s3 == IF ~t2 /\ config.js_listeners # "none"
              THEN addJsEventListener(s2, target, "click",
                                      config.js_listeners)
              ELSE s2
      t3 == t2 \/ (config.js_listeners # "none" /\ bad)
      s4 == IF ~t3 /\ config.py_listeners # "none"
              THEN addPythonEventListener(s3, target, "click",
                                          config.py_listeners)
              ELSE s3
      t4 == t3 \/ (config.py_listeners # "none" /\ bad)
  IN  IF t4 THEN Thrown(s4, HError("TypeError")) ELSE Returned(s4, Undefined)

SetHState(s) ==
  /\ callbacks' = s.callbacks
  /\ nextClosure' = s.nextClosure
  /\ listeners' = s.listeners
  /\ attrs' = s.attrs
  /\ props' = s.props

\* The promise of an async function whose body ended as r says.
Settled(r) ==
  [status |-> IF r.status = "returned" THEN "resolved" ELSE "rejected",
   value |-> r.value]

Elements == {ElementOf(g) : g \in Guids}

InitHVars ==
  /\ elements = [g \in Guids |-> NoProxy]
  /\ globalEl = None
  /\ callbacks = [k \in Keys |-> 0]
  /\ nextClosure = 1
  /\ listeners = {}
  /\ attrs = [e \in Elements |-> None]
  /\ props = [e \in Elements |-> None]
  /\ inits = <<>>
  /\ hcalls = <<>>
  /\ awaiting = <<>>

\* A page without registered elements.
InitHtmlUnused == dom = {} /\ defined = {} /\ InitHVars

\* Does createElement store the proxy for this config when it is called?
StoresProxy_Always(config) == TRUE

StoresProxy_WhenDefined(config) ==
  config.guid \in dom /\ (Hyphenated(config.tag) => config.tag \in defined)

StoresProxy(config) == config.guid \in dom

\* Does an async function of this tag run on without suspending?
RunsOn_Always(tag) == TRUE

RunsOn(tag) == ~Hyphenated(tag)

\* createElement(config): initialize up to its first await, the promise
\* handed to pauseOutputUntil, then the lookup and the registry entry.
CreateElement(config) ==
  /\ Len(inits) < MaxRegs
  /\ LET n == Len(inits) + 1
         found == config.guid \in dom
         el1 == IF found THEN ElementOf(config.guid) ELSE Null
         sync == found /\ RunsOn(config.tag)
         r == IF sync THEN ApplyConfig(HState, el1, config, n)
                      ELSE Returned(HState, Undefined)
     IN  /\ globalEl' = el1
         /\ SetHState(r.state)
         /\ inits' = Append(inits,
              [config |-> config,
               status |-> IF ~found THEN "rejected"
                          ELSE IF sync THEN Settled(r).status ELSE "pending",
               value |-> IF ~found THEN HError("ReferenceError")
                         ELSE IF sync THEN r.value ELSE None,
               target |-> IF sync THEN el1 ELSE None,
               thrown |-> IF found THEN None
                          ELSE HError("No element found")])
         /\ awaiting' = IF found /\ ~sync
                          THEN Append(awaiting, <<"init", n>>) ELSE awaiting
         /\ elements' = IF StoresProxy(config)
                          THEN [elements EXCEPT ![config.guid] =
                                  [tag |-> config.tag, el |-> el1]]
                          ELSE elements
  /\ UNCHANGED <<dom, defined, hcalls>>
  /\ UNCHANGED notHtml

\* customElements.define(tag, ...) somewhere on the page.
Define(tag) ==
  /\ Hyphenated(tag)
  /\ tag \notin defined
  /\ defined' = defined \cup {tag}
  /\ UNCHANGED <<dom, elements, globalEl, callbacks, nextClosure, listeners,
                 attrs, props, inits, hcalls, awaiting>>
  /\ UNCHANGED notHtml

\* The tag a suspended continuation waits for.
TagOf(w) ==
  IF w[1] = "init" THEN inits[w[2]].config.tag ELSE hcalls[w[2]].tag

\* The continuations that may run next: whenDefined has resolved for their
\* tag, and the ones that waited for it earlier have run.
Ready_AnyTime(k) == k \in 1..Len(awaiting)

Ready(k) ==
  /\ k \in 1..Len(awaiting)
  /\ TagOf(awaiting[k]) \in defined
  /\ \A j \in 1..(k - 1) : TagOf(awaiting[j]) # TagOf(awaiting[k])

Without(q, k) == [i \in 1..(Len(q) - 1) |-> IF i < k THEN q[i] ELSE q[i + 1]]

\* initialize continues after its await.
ResumeInit(k) ==
  /\ Ready(k)
  /\ awaiting[k][1] = "init"
  /\ LET n == awaiting[k][2]
         r == ApplyConfig(HState, globalEl, inits[n].config, n)
     IN  /\ SetHState(r.state)
         /\ inits' = [inits EXCEPT ![n].status = Settled(r).status,
                                   ![n].value = r.value,
                                   ![n].target = globalEl]
  /\ awaiting' = Without(awaiting, k)
  /\ UNCHANGED <<dom, defined, elements, globalEl, hcalls>>
  /\ UNCHANGED notHtml

\* elements[guid].call(msg), as a transport makes it for a matching id.
ProxyCall(guid, msg, app) ==
  /\ Len(hcalls) < MaxMsgs
  /\ elements[guid] # NoProxy
  /\ LET n == Len(hcalls) + 1
         proxy == elements[guid]
         sync == RunsOn(proxy.tag)
         r == IF sync THEN processMessage(HState, proxy.el, msg, app)
                      ELSE Returned(HState, Undefined)
     IN  /\ SetHState(r.state)
         /\ hcalls' = Append(hcalls,
              [guid |-> guid, tag |-> proxy.tag, msg |-> msg,
               status |-> IF sync THEN Settled(r).status ELSE "pending",
               value |-> IF sync THEN r.value ELSE None,
               early |-> Hyphenated(proxy.tag) /\ proxy.tag \notin defined])
         /\ awaiting' = IF sync THEN awaiting
                        ELSE Append(awaiting, <<"call", n>>)
  /\ UNCHANGED <<dom, defined, elements, globalEl, inits>>
  /\ UNCHANGED notHtml

\* A call on a proxy continues after its await.
ResumeCall(k, app) ==
  /\ Ready(k)
  /\ awaiting[k][1] = "call"
  /\ LET n == awaiting[k][2]
         r == processMessage(HState, ElementOf(hcalls[n].guid),
                             hcalls[n].msg, app)
     IN  /\ SetHState(r.state)
         /\ hcalls' = [hcalls EXCEPT ![n].status = Settled(r).status,
                                     ![n].value = r.value]
  /\ awaiting' = Without(awaiting, k)
  /\ UNCHANGED <<dom, defined, elements, globalEl, inits>>
  /\ UNCHANGED notHtml

\* ------------------------------------------------------------------------
\* Toolbar integration (toolbar-integration.js)
\* ------------------------------------------------------------------------
\* Bounds: addToolbarButton calls and clicks in one run.
MaxChecks == 3
MaxClicks == 2

\* The overflow menu among the children of the toolbar; a button is named
\* by the number of the addToolbarButton call that made it.
OverflowMenu == 0

Toolbars ==
  {[present |-> FALSE, children |-> <<>>],
   [present |-> TRUE, children |-> <<>>],
   [present |-> TRUE, children |-> <<OverflowMenu>>]}

\* What result.data['application/json'] may hold: booleans, strings (by
\* their length), numbers, or nothing.
AuthValues ==
  {<<"boolean", 1>>, <<"boolean", 0>>, <<"string", 0>>, <<"string", 5>>,
   <<"number", 0>>, <<"number", 1>>, Undefined}

\* The results check_auth may resolve with: an object with data, or one
\* without, on which result.data[...] throws.
NoData == <<"nodata", 0>>
AuthResults == AuthValues \cup {NoData}

\* if (isAuthenticated)
Truthy_Always(v) == TRUE

Truthy(v) ==
  CASE v[1] = "boolean" -> v[2] = 1
    [] v[1] = "string" -> v[2] > 0
    [] v[1] = "number" -> v[2] # 0
    [] OTHER -> FALSE

InitTbVars ==
  /\ tbChecks = <<>>
  /\ tbDetached = {}
  /\ tbDialogs = 0
  /\ tbLogged = 0

\* A page without the toolbar integration.
InitToolbarUnused ==
  /\ tbToolbar = [present |-> FALSE, children |-> <<>>]
  /\ InitTbVars

\* addToolbarButton(): the check_auth request goes out.
AddToolbarButton ==
  /\ Len(tbChecks) < MaxChecks
  /\ tbChecks' = Append(tbChecks, [status |-> "pending", value |-> None])
  /\ UNCHANGED <<tbToolbar, tbDetached, tbDialogs, tbLogged>>
  /\ UNCHANGED notToolbar

\* The children of the toolbar after insertToolbarButton_ for button b:
\* before the overflow menu if there is one, else at the end.
InsertBefore(children, b) ==
  IF \E i \in 1..Len(children) : children[i] = OverflowMenu
    THEN LET i == CHOOSE j \in 1..Len(children) : children[j] = OverflowMenu
         IN  SubSeq(children, 1, i - 1) \o <<b>>
               \o SubSeq(children, i, Len(children))
    ELSE Append(children, b)

\* check_auth resolves with result r: the then handler runs, and the catch
\* handler if that one throws.
CheckAuthResolves(i, r) ==
  /\ i \in 1..Len(tbChecks)
  /\ tbChecks[i].status = "pending"
  /\ tbChecks' = [tbChecks EXCEPT ![i] = [status |-> "resolved", value |-> r]]
  /\ IF r = NoData
       THEN /\ tbLogged' = tbLogged + 1
            /\ UNCHANGED <<tbToolbar, tbDetached>>
       ELSE /\ tbLogged' = tbLogged
            /\ IF Truthy(r)
                 THEN IF tbToolbar.present
                        THEN /\ tbToolbar' =
                                  [tbToolbar EXCEPT !.children =
                                     InsertBefore(@, i)]
                             /\ tbDetached' = tbDetached
                        ELSE /\ tbDetached' = tbDetached \cup {i}
                             /\ tbToolbar' = tbToolbar
                 ELSE UNCHANGED <<tbToolbar, tbDetached>>
  /\ UNCHANGED tbDialogs
  /\ UNCHANGED notToolbar

\* check_auth rejects: the catch handler logs.
CheckAuthRejects(i) ==
  /\ i \in 1..Len(tbChecks)
  /\ tbChecks[i].status = "pending"
  /\ tbChecks' = [tbChecks EXCEPT ![i] =
                    [status |-> "rejected", value |-> HError("kernel")]]
  /\ tbLogged' = tbLogged + 1
  /\ UNCHANGED <<tbToolbar, tbDetached, tbDialogs>>
  /\ UNCHANGED notToolbar

\* The buttons a user can click: those in the toolbar.
Buttons == {tbToolbar.children[i] : i \in 1..Len(tbToolbar.children)}
             \ {OverflowMenu}

\* A click on a button in the toolbar: showDeployToCloudDialog.
ClickDeployButton ==
  /\ Buttons # {}
  /\ tbDialogs < MaxClicks
  /\ tbDialogs' = tbDialogs + 1
  /\ UNCHANGED <<tbToolbar, tbChecks, tbDetached, tbLogged>>
  /\ UNCHANGED notToolbar

\* ------------------------------------------------------------------------
\* Deploy to Cloud dialog (deploy_to_cloud_dialog.js)
\* ------------------------------------------------------------------------
\* One dialog, from the return of show().  The dialog widget and the
\* Deferred are library objects: the model keeps what the code sets on
\* them and the calls it makes on them.  A disabled button takes no click,
\* a disabled select takes no change, and Cancel closes the dialog.

\* Bounds: OK clicks and get_regions requests in one run.
MaxOkClicks == 3
MaxRegionReqs == 2

Projects == {"p1", "p2"}
Services == {"cloudrun", "cloudfunctions"}
Names == {"", "svc"}

\* A region is named after the project and service it was listed for.
Region(p, s) == p \o "/" \o s
NoRegion == "null"

\* What the region select shows: a placeholder, or the regions returned
\* for a project and service.
Placeholder(text) == [kind |-> text, project |-> "none", service |-> "none"]
RegionsFor(p, s) == [kind |-> "regions", project |-> p, service |-> s]

\* !x for the fields handleDeploy_ and updateRegions_ test: null and the
\* empty string are falsy.
Unset(v) == v \in {"null", ""}

InitDgVars ==
  /\ dgOpen = TRUE
  /\ dgProjects = "loading"
  /\ dgProject = "null"
  /\ dgService = "cloudrun"
  /\ dgRegion = NoRegion
  /\ dgName = "svc"
  /\ dgOkEnabled = TRUE
  /\ dgCancelEnabled = TRUE
  /\ dgOkText = "Deploy"
  /\ dgOkCallback = "deploy"
  /\ dgStatus = "hidden"
  /\ dgClicks = 0
  /\ dgInFlight = 0
  /\ dgFires = <<>>
  /\ dgRegionReqs = <<>>
  /\ dgOptions = Placeholder("Select a project first")
  /\ dgRegionEnabled = FALSE

\* A page on which no dialog is shown.
InitDialogUnused ==
  /\ dgOpen = FALSE
  /\ dgProjects = "loading"
  /\ dgProject = "null"
  /\ dgService = "cloudrun"
  /\ dgRegion = NoRegion
  /\ dgName = "svc"
  /\ dgOkEnabled = TRUE
  /\ dgCancelEnabled = TRUE
  /\ dgOkText = "Deploy"
  /\ dgOkCallback = "deploy"
  /\ dgStatus = "hidden"
  /\ dgClicks = 0
  /\ dgInFlight = 0
  /\ dgFires = <<>>
  /\ dgRegionReqs = <<>>
  /\ dgOptions = Placeholder("Select a project first")
  /\ dgRegionEnabled = FALSE

\* get_projects settles: the project select is filled and enabled, or
\* shows the failure and stays disabled.
ProjectsSettle(ok) ==
  /\ dgProjects = "loading"
  /\ dgProjects' = IF ok THEN "loaded" ELSE "failed"
  /\ UNCHANGED <<dgOpen, dgProject, dgService, dgRegion, dgName, dgOkEnabled,
                 dgCancelEnabled, dgOkText, dgOkCallback, dgStatus, dgClicks,
                 dgInFlight, dgFires, dgRegionReqs, dgOptions,
                 dgRegionEnabled>>
  /\ UNCHANGED notDialog

\* updateRegions_() with project p and service s selected: returns at once
\* if one is unset, else shows "Loading regions..." and requests the
\* regions of (p, s).
RequestsRegions(p, s) == ~Unset(p) /\ ~Unset(s)

UpdateRegions(p, s) ==
  IF RequestsRegions(p, s)
    THEN /\ dgRegionReqs' =
              Append(dgRegionReqs,
                     [project |-> p, service |-> s, status |-> "pending"])
         /\ dgOptions' = Placeholder("Loading regions...")
         /\ dgRegionEnabled' = FALSE
    ELSE UNCHANGED <<dgRegionReqs, dgOptions, dgRegionEnabled>>

\* The change handler of the project select.
ChangeProject(p) ==
  /\ dgOpen
  /\ dgProjects = "loaded"
  /\ Len(dgRegionReqs) < MaxRegionReqs
  /\ dgProject' = p
  /\ UpdateRegions(p, dgService)
  /\ UNCHANGED <<dgOpen, dgProjects, dgService, dgRegion, dgName, dgOkEnabled,
                 dgCancelEnabled, dgOkText, dgOkCallback, dgStatus, dgClicks,
                 dgInFlight, dgFires>>
  /\ UNCHANGED notDialog

\* The change handler of the service select.
ChangeService(s) ==
  /\ dgOpen
  /\ Len(dgRegionReqs) < MaxRegionReqs
  /\ dgService' = s
  /\ UpdateRegions(dgProject, s)
  /\ UNCHANGED <<dgOpen, dgProjects, dgProject, dgRegion, dgName, dgOkEnabled,
                 dgCancelEnabled, dgOkText, dgOkCallback, dgStatus, dgClicks,
                 dgInFlight, dgFires>>
  /\ UNCHANGED notDialog

\* Whose response fills the region select: that of request i, whatever is
\* selected by now.
ShownFor(i) == RegionsFor(dgRegionReqs[i].project, dgRegionReqs[i].service)

\* A get_regions request settles: with a list of regions, with a result
\* the then handler cannot read, or with a rejection.
RegionsSettle(i, outcome) ==
  /\ i \in 1..Len(dgRegionReqs)
  /\ dgRegionReqs[i].status = "pending"
  /\ dgRegionReqs' = [dgRegionReqs EXCEPT ![i].status = outcome]
  /\ IF outcome = "resolved"
       THEN /\ dgOptions' = ShownFor(i)
            /\ dgRegionEnabled' = TRUE
       ELSE /\ dgOptions' = Placeholder("Failed to load regions")
            /\ dgRegionEnabled' = dgRegionEnabled
  /\ UNCHANGED <<dgOpen, dgProjects, dgProject, dgService, dgRegion, dgName,
                 dgOkEnabled, dgCancelEnabled, dgOkText, dgOkCallback,
                 dgStatus, dgClicks, dgInFlight, dgFires>>
  /\ UNCHANGED notDialog

\* The change handler of the region select: the user picks the region
\* shown.
ChangeRegion ==
  /\ dgOpen
  /\ dgRegionEnabled
  /\ dgOptions.kind = "regions"
  /\ dgRegion' = Region(dgOptions.project, dgOptions.service)
  /\ dgRegion' # dgRegion
  /\ UNCHANGED <<dgOpen, dgProjects, dgProject, dgService, dgName, dgOkEnabled,
                 dgCancelEnabled, dgOkText, dgOkCallback, dgStatus, dgClicks,
                 dgInFlight, dgFires, dgRegionReqs, dgOptions,
                 dgRegionEnabled>>
  /\ UNCHANGED notDialog

\* The input handler of the service name field.
ChangeName(n) ==
  /\ dgOpen
  /\ n # dgName
  /\ dgName' = n
  /\ UNCHANGED <<dgOpen, dgProjects, dgProject, dgService, dgRegion,
                 dgOkEnabled, dgCancelEnabled, dgOkText, dgOkCallback,
                 dgStatus, dgClicks, dgInFlight, dgFires, dgRegionReqs,
                 dgOptions, dgRegionEnabled>>
  /\ UNCHANGED notDialog

\* What show() hands to the deferred: the deployment result through
\* callback, an error through errback.
FillFields == <<"errback", "Please fill all required fields">>
DeployFailed == <<"errback", "Deployment failed">>
DeployResult == <<"callback", "result">>

\* The test at the head of handleDeploy_.
Incomplete_NameOnly == Unset(dgName)

Incomplete == Unset(dgProject) \/ Unset(dgRegion) \/ Unset(dgName)

\* setOkEnabled(false); setCancelEnabled(false) before the request.
EnabledWhileDeploying_Left == TRUE

EnabledWhileDeploying == FALSE

\* A click on OK while its callback is the one show() set: handleDeploy_,
\* and for a rejection at once the errback of the deferred.
OkClickDeploy ==
  /\ dgOpen
  /\ dgOkEnabled
  /\ dgOkCallback = "deploy"
  /\ dgClicks < MaxOkClicks
  /\ dgClicks' = dgClicks + 1
  /\ IF Incomplete
       THEN /\ dgFires' = Append(dgFires, FillFields)
            /\ UNCHANGED <<dgOkEnabled, dgCancelEnabled, dgStatus, dgInFlight>>
       ELSE /\ dgOkEnabled' = EnabledWhileDeploying
            /\ dgCancelEnabled' = EnabledWhileDeploying
            /\ dgStatus' = "deploying"
            /\ dgInFlight' = dgInFlight + 1
            /\ dgFires' = dgFires
  /\ UNCHANGED <<dgOpen, dgProjects, dgProject, dgService, dgRegion, dgName,
                 dgOkText, dgOkCallback, dgRegionReqs, dgOptions,
                 dgRegionEnabled>>
  /\ UNCHANGED notDialog

\* A click on OK after a successful deployment: the dialog is disposed.
OkClickClose ==
  /\ dgOpen
  /\ dgOkEnabled
  /\ dgOkCallback = "close"
  /\ dgOpen' = FALSE
  /\ UNCHANGED <<dgProjects, dgProject, dgService, dgRegion, dgName,
                 dgOkEnabled, dgCancelEnabled, dgOkText, dgOkCallback,
                 dgStatus, dgClicks, dgInFlight, dgFires, dgRegionReqs,
                 dgOptions, dgRegionEnabled>>
  /\ UNCHANGED notDialog

\* A click on Cancel.
CancelClick ==
  /\ dgOpen
  /\ dgCancelEnabled
  /\ dgOpen' = FALSE
  /\ UNCHANGED <<dgProjects, dgProject, dgService, dgRegion, dgName,
                 dgOkEnabled, dgCancelEnabled, dgOkText, dgOkCallback,
                 dgStatus, dgClicks, dgInFlight, dgFires, dgRegionReqs,
                 dgOptions, dgRegionEnabled>>
  /\ UNCHANGED notDialog

\* A deploy request settles.  With a result that has a url the then
\* handler shows it and turns OK into Close, and show() fires the callback
\* of the deferred; with a result it cannot read, or a rejection, the catch
\* handler shows the error and turns OK into Try Again, and show() fires
\* the errback.
DeploySettles(outcome) ==
  /\ dgInFlight > 0
  /\ dgInFlight' = dgInFlight - 1
  /\ dgOkEnabled' = TRUE
  /\ IF outcome = "resolved"
       THEN /\ dgStatus' = "success"
            /\ dgOkText' = "Close"
            /\ dgOkCallback' = "close"
            /\ dgCancelEnabled' = dgCancelEnabled
            /\ dgFires' = Append(dgFires, DeployResult)
       ELSE /\ dgStatus' = "error"
            /\ dgOkText' = "Try Again"
            /\ dgOkCallback' = dgOkCallback
            /\ dgCancelEnabled' = TRUE
            /\ dgFires' = Append(dgFires, DeployFailed)
  /\ UNCHANGED <<dgOpen, dgProjects, dgProject, dgService, dgRegion, dgName,
                 dgClicks, dgRegionReqs, dgOptions, dgRegionEnabled>>
  /\ UNCHANGED notDialog

\* How a kernel request may end.
Outcomes == {"resolved", "unreadable", "rejected"}

InitSpecDialog ==
  /\ frames = <<>> /\ InitFWVars /\ InitBCVars
  /\ InitHtmlUnused /\ InitToolbarUnused
  /\ InitDgVars

NextDialog ==
  \/ \E ok \in BOOLEAN : ProjectsSettle(ok)
  \/ \E p \in Projects : ChangeProject(p)
  \/ \E s \in Services : ChangeService(s)
  \/ \E i \in 1..Len(dgRegionReqs), o \in Outcomes : RegionsSettle(i, o)
  \/ ChangeRegion
  \/ \E n \in Names : ChangeName(n)
  \/ OkClickDeploy
  \/ OkClickClose
  \/ CancelClick
  \/ \E o \in Outcomes : DeploySettles(o)

SpecDialog == InitSpecDialog /\ [][NextDialog]_vars

\* ------------------------------------------------------------------------
\* Specifications
\* ------------------------------------------------------------------------

\* Frame-Walk calls on an arbitrary list of frames.
InitSpecFW ==
  /\ frames \in FrameLists /\ InitFWVars /\ InitBCVars
  /\ InitHtmlUnused /\ InitToolbarUnused /\ InitDialogUnused

NextFW ==
  \/ FWStart
  \/ FWInspect
  \/ FWReturnDefault
  \/ FWForward
  \/ FWCallSettles

SpecFW == InitSpecFW /\ [][NextFW]_vars

\* One Broadcast call (caller 1), the clock, and the other contexts posting on
\* the channels: the responder, and caller 2's responder and requests as far
\* as they reach the channel of caller 1.
Callers == {1}

InitSpecBC ==
  /\ frames = <<>> /\ InitFWVars /\ InitBCVars
  /\ InitHtmlUnused /\ InitToolbarUnused /\ InitDialogUnused

NextBC ==
  \/ \E c \in Callers : BCStart(c)
  \/ EnvPost
  \/ \E c \in Callers : BCDeliver(c)
  \/ \E c \in Callers : BCDrop(c)
  \/ \E c \in Callers : BCTimerFire(c)
  \/ Tick

SpecBC == InitSpecBC /\ [][NextBC]_vars

\* Timers that are due run, and time passes.
FairSpecBC ==
  /\ SpecBC
  /\ WF_vars(Tick)
  /\ \A c \in Callers : WF_vars(BCTimerFire(c))


\* ========================================================================
\* Properties of the Frame-Walk transport (checked under SpecFW)
\* ========================================================================
MinOf(S) == CHOOSE n \in S : \A m \in S : n <= m

\* The frames in which id is registered, readable by the caller or not.
Registered(id) == { n \in 1..Len(frames) : id \in frames[n].elements }

\* The frames whose registry the caller can read and find id in.
Candidates(id) ==
  { n \in 1..Len(frames) : frames[n].kind = "registry" /\ id \in frames[n].elements }

\* C1: when id is in no frame's registry, proxy calls no proxy, does not
\* reject, and its promise resolves with exactly defaultResponse.
C1_AbsentIdResolvesDefault ==
  (fwPc # "idle" /\ Registered(fwId) = {}) =>
    /\ fwCalls = <<>>
    /\ fwCallee = NotCalled
    /\ fwPc # "awaiting"
    /\ fwOutcome.status # "rejected"
    /\ fwPc = "done" => fwOutcome = Resolved(fwDefault)

C1_Witness ==
  /\ fwPc = "done"
  /\ Registered(fwId) = {}
  /\ fwDefault = <<"default", 2>>
  /\ fwOutcome = Resolved(fwDefault)
  /\ \E n \in 1..Len(frames) :
       frames[n].kind = "registry" /\ frames[n].elements # {}

\* C2: when id is registered in frames the caller can read, the message goes
\* to the proxy of the lowest-index such frame and to no other, the caller
\* gets what that proxy's call gives, and no later frame is consulted.
C2_FirstFrameWins ==
  (fwPc # "idle" /\ Candidates(fwId) # {}) =>
    LET first == MinOf(Candidates(fwId)) IN
    /\ fwCalls \in {<<>>, << <<first, fwMsg>> >>}
    /\ fwRead \subseteq 1..first
    /\ fwPc \in {"awaiting", "done"} => fwCalls = << <<first, fwMsg>> >>
    /\ fwPc = "done" =>
         fwOutcome \in {Resolved(CallResult(first)), Rejected(CallError(first))}
    /\ fwCallee.status = "resolved" => fwOutcome = Resolved(CallResult(first))

C2_Witness ==
  /\ fwPc = "done"
  /\ Cardinality(Candidates(fwId)) >= 2
  /\ fwOutcome = Resolved(CallResult(MinOf(Candidates(fwId))))
  /\ MinOf(Candidates(fwId)) > 1

\* C9: an access error of a cross-origin frame never reaches the caller; the
\* scan goes on behind that frame, so that a registry entry in a later frame
\* is found and called, and without any match the call resolves with
\* defaultResponse.
C9_AccessErrorSwallowed ==
  /\ fwOutcome.value[1] # "accessError"
  /\ fwCaught # {} => fwOutcome.status = "pending" \/ fwPc = "done"
  /\ (fwPc = "done" /\ Candidates(fwId) = {}) =>
       /\ fwOutcome = Resolved(fwDefault)
       /\ fwCaught = { n \in 1..Len(frames) : AccessThrows(n) }
  /\ (fwPc = "done" /\ Candidates(fwId) # {}) =>
       LET first == MinOf(Candidates(fwId)) IN
       /\ fwCalls = << <<first, fwMsg>> >>
       /\ fwCaught = { n \in 1..first : AccessThrows(n) }

C9_Witness ==
  /\ fwPc = "done"
  /\ Candidates(fwId) # {}
  /\ \E n \in fwCaught :
       /\ n < MinOf(Candidates(fwId))
       /\ fwId \in frames[n].elements
  /\ fwCalls = << <<MinOf(Candidates(fwId)), fwMsg>> >>
  /\ fwOutcome.status = "resolved"

\* C10: when the call on the proxy found throws or its promise rejects, the
\* caller gets that very error: defaultResponse is not substituted, no other
\* frame's proxy is called and the call is not repeated.
C10_CallErrorPropagates ==
  fwCallee.status \in {"threw", "rejected"} =>
    /\ fwPc = "done"
    /\ fwOutcome = Rejected(fwCallee.value)
    /\ fwCallee.value = CallError(fwElementProxy)
    /\ fwCalls = << <<fwElementProxy, fwMsg>> >>

C10_Witness ==
  /\ fwCallee.status = "rejected"
  /\ fwOutcome = Rejected(CallError(fwElementProxy))
  /\ fwDefault # Undefined
  /\ Cardinality(Candidates(fwId)) >= 2

\* ========================================================================
\* Properties of the Broadcast transport (checked under SpecBC, FairSpecBC)
\* ========================================================================
\* C3: when the reply the listener takes (a message with method "reply" and
\* the call's correlation id, arriving while the call waits: before the
\* timer fired, or with no timer at all) carries value V, the call resolves
\* to V.
C3_ReplyValueResolves ==
  \A c \in Calls :
    bcReply[c] # NoReply =>
      /\ Matches(bcReply[c], RespId(c))
      /\ bcReply[c].error = Undefined =>
           bcOutcome[c] = Resolved(bcReply[c].value)

C3_Witness ==
  \E c \in Calls :
    /\ bcOutcome[c] = Resolved(<<"value", 2>>)
    /\ bcReply[c].value = <<"value", 2>>
    /\ bcTimer[c] = "armed"
    /\ now < bcArmedAt[c] + Delay

\* C4: a call with defaultResponse D that no matching reply settles resolves
\* to D, no earlier than Delay after the timer was armed; and a waiting call
\* with a defaultResponse does settle.
C4_DefaultAfterDelay ==
  /\ [](\A c \in Calls :
          /\ bcTimer[c] = "fired" => now >= bcArmedAt[c] + Delay
          /\ (bcPc[c] = "done" /\ bcReply[c] = NoReply) =>
               /\ bcDefault[c] # Undefined
               /\ bcOutcome[c] = Resolved(bcDefault[c])
               /\ now >= bcArmedAt[c] + Delay)
  /\ \A c \in Callers :
       (bcPc[c] = "waiting" /\ bcDefault[c] # Undefined) ~> (bcPc[c] = "done")

C4_Witness ==
  \E c \in Calls :
    /\ bcPc[c] = "done"
    /\ bcReply[c] = NoReply
    /\ bcDropped[c] = {}
    /\ bcInbox[c] = <<>>
    /\ bcOutcome[c] = Resolved(<<"default", 1>>)
    /\ now >= bcArmedAt[c] + Delay
    /\ bcArmedAt[c] > 0

\* C5: when the reply the listener takes carries an error field, the call
\* rejects with an Error whose message is that text, and does not resolve.
C5_ReplyErrorRejects ==
  \A c \in Calls :
    (bcReply[c] # NoReply /\ bcReply[c].error # Undefined) =>
      bcOutcome[c] = Rejected(NewError(bcReply[c].error))

C5_Witness ==
  \E c \in Calls :
    /\ bcReply[c].error = <<"text", 1>>
    /\ bcOutcome[c] = Rejected(NewError(<<"text", 1>>))
    /\ bcTimer[c] = "armed"

\* C6: a settled call has closed its channel, whichever way it settled; the
\* channel is open only while the call waits.
C6_ChannelClosedOnExit ==
  \A c \in Calls :
    /\ bcOutcome[c].status # "pending" => ~bcOpen[c]
    /\ bcOpen[c] <=> bcPc[c] = "waiting"

C6_Witness ==
  \E c \in Calls :
    /\ bcOutcome[c].status = "rejected"
    /\ bcPc[c] = "done"
    /\ ~bcOpen[c]

\* C7: the listener takes at most one reply per call, and once it has taken
\* one, neither the reply taken nor the outcome of the call changes again,
\* whatever further replies with the same correlation id are posted.
C7_OneReplyHonored ==
  /\ [](\A c \in Calls : bcHandled[c] <= 1)
  /\ [][\A c \in Calls :
          bcReply[c] # NoReply =>
            /\ bcReply'[c] = bcReply[c]
            /\ bcOutcome'[c] = bcOutcome[c]]_vars

C7_Witness ==
  \E c \in Calls :
    /\ bcReply[c] # NoReply
    /\ bcHandled[c] = 1
    /\ bcOutcome[c] = Resolved(bcReply[c].value)
    /\ \E m \in bcDropped[c] : m.value # bcReply[c].value /\ m.error = Undefined
    /\ \E m \in bcDropped[c] : m.error # Undefined

\* C8: once the timer has settled the call with defaultResponse, a matching
\* reply that arrives later is dropped: the listener never takes it and the
\* outcome stays resolved with defaultResponse.
C8_LateReplyDropped ==
  [][\A c \in Calls :
       (bcTimer[c] = "fired" /\ bcReply[c] = NoReply) =>
         /\ bcOutcome[c] = Resolved(bcDefault[c])
         /\ bcOutcome'[c] = bcOutcome[c]
         /\ bcReply'[c] = NoReply
         /\ bcHandled'[c] = 0]_vars

C8_Witness ==
  \E c \in Calls :
    /\ bcTimer[c] = "fired"
    /\ bcReply[c] = NoReply
    /\ bcOutcome[c] = Resolved(bcDefault[c])
    /\ \E m \in bcDropped[c] : m.error # Undefined
    /\ \E m \in bcDropped[c] : m.value # Undefined

\* C11: a call without defaultResponse arms no timer, and as long as the
\* listener has taken no matching reply it stays unsettled, at its await,
\* however much time passes and whatever else arrives on the channel.
C11_NoDefaultNeverSettles ==
  \A c \in Calls :
    (bcPc[c] # "idle" /\ bcDefault[c] = Undefined) =>
      /\ bcTimer[c] = "none"
      /\ bcReply[c] = NoReply =>
           /\ bcOutcome[c] = Pending
           /\ bcPc[c] = "waiting"

C11_Witness ==
  \E c \in Calls :
    /\ bcPc[c] = "waiting"
    /\ bcDefault[c] = Undefined
    /\ bcOutcome[c] = Pending
    /\ now >= bcArmedAt[c] + Delay + TickStep
    /\ posts >= 2
    /\ bcInbox[c] = <<>>

\* ========================================================================
\* Either transport
\* ========================================================================
\* A page uses one of the two transports: Frame-Walk where the caller can
\* walk window.parent.frames, Broadcast where there are no frames to walk.
BCUnused == now = 0 /\ \A c \in Calls : bcPc[c] = "idle"

InitSpecProxy ==
  /\ frames \in FrameLists /\ InitFWVars /\ InitBCVars
  /\ InitHtmlUnused /\ InitToolbarUnused /\ InitDialogUnused

NextProxy ==
  \/ BCUnused /\ NextFW
  \/ frames = <<>> /\ fwPc = "idle" /\ NextBC

SpecProxy == InitSpecProxy /\ [][NextProxy]_vars

\* C12 as claimed: with no defaultResponse, a Frame-Walk call whose id is in
\* no frame's registry and a Broadcast call that gets no matching reply never
\* settle.
C12_NeverSettlesEitherTransport ==
  /\ (fwPc # "idle" /\ Registered(fwId) = {} /\ fwDefault = Undefined) =>
       fwOutcome.status = "pending"
  /\ \A c \in Calls :
       (bcPc[c] # "idle" /\ bcDefault[c] = Undefined /\ bcReply[c] = NoReply) =>
         bcOutcome[c].status = "pending"

\* C12 amended: with no defaultResponse, a Broadcast call that gets no
\* matching reply never settles, whereas a Frame-Walk call whose id is in no
\* frame's registry settles when its scan ends: it resolves with undefined.
C12_OnlyBroadcastHangs ==
  /\ (fwPc # "idle" /\ Registered(fwId) = {} /\ fwDefault = Undefined) =>
       /\ fwPc \in {"loop", "after", "done"}
       /\ fwPc # "done" => fwOutcome = Pending
       /\ fwPc = "done" => fwOutcome = Resolved(Undefined)
  /\ \A c \in Calls :
       (bcPc[c] # "idle" /\ bcDefault[c] = Undefined /\ bcReply[c] = NoReply) =>
         bcOutcome[c].status = "pending"

C12_Witness ==
  /\ fwPc = "done"
  /\ Registered(fwId) = {}
  /\ fwDefault = Undefined
  /\ fwOutcome = Resolved(Undefined)
  /\ fwCalls = <<>>
  /\ Len(frames) >= 2

\* The dispatcher: a plain element is registered and its proxy is sent
\* every kind of message.
ListenerMethods ==
  {"addPythonEventListener", "addJsEventListener", "removeEventListener"}

DispatchMsgs ==
  [method : Methods \cup OtherMethods, name : {"click"}, value : {"k1"}]
    \cup [method : ListenerMethods, name : {"click"}, value : Keys]

DispatchConfigs ==
  [guid : {"g1"}, tag : {"div"}, attributes : {FALSE}, properties : {FALSE},
   js_listeners : {"none"}, py_listeners : {"none", "k1"}]

InitSpecDispatch ==
  /\ frames = <<>> /\ InitFWVars /\ InitBCVars /\ InitToolbarUnused /\ InitDialogUnused
  /\ dom = {"g1"}
  /\ defined = {}
  /\ InitHVars

NextDispatch ==
  \/ \E config \in DispatchConfigs : CreateElement(config)
  \/ \E guid \in Guids, msg \in DispatchMsgs, app \in AppOutcomes :
       ProxyCall(guid, msg, app)

SpecDispatch == InitSpecDispatch /\ [][NextDispatch]_vars

\* Registration: createElement for elements that exist or not, of plain
\* and of custom tags, and calls on the proxies it stores.
RegisterMsgs ==
  [method : {"setAttribute", "exists"}, name : {"click"}, value : {"k1"}]

\* Every config carries an attribute, a property and a listener of each
\* kind.
RegisterConfigs ==
  [guid : Guids, tag : Tags, attributes : {TRUE}, properties : {TRUE},
   js_listeners : {"k1"}, py_listeners : {"k2"}]

InitSpecRegister ==
  /\ frames = <<>> /\ InitFWVars /\ InitBCVars /\ InitToolbarUnused /\ InitDialogUnused
  /\ dom = {"g1"}
  /\ defined = {}
  /\ InitHVars

NextRegister ==
  \/ \E config \in RegisterConfigs : CreateElement(config)
  \/ \E tag \in Tags : Define(tag)
  \/ \E guid \in Guids, msg \in RegisterMsgs, app \in AppOutcomes :
       ProxyCall(guid, msg, app)
  \/ \E k \in 1..Len(awaiting) : ResumeInit(k)
  \/ \E k \in 1..Len(awaiting), app \in AppOutcomes : ResumeCall(k, app)

SpecRegister == InitSpecRegister /\ [][NextRegister]_vars

\* Microtasks run: a continuation whose wait is over is resumed.
FairSpecRegister ==
  /\ SpecRegister
  /\ WF_vars(\E k \in 1..Len(awaiting) : ResumeInit(k))
  /\ WF_vars(\E k \in 1..Len(awaiting), app \in AppOutcomes :
               ResumeCall(k, app))

\* The toolbar integration on a page with or without a toolbar.
InitSpecToolbar ==
  /\ frames = <<>> /\ InitFWVars /\ InitBCVars /\ InitHtmlUnused
  /\ tbToolbar \in Toolbars
  /\ InitTbVars
  /\ InitDialogUnused

NextToolbar ==
  \/ AddToolbarButton
  \/ \E i \in 1..Len(tbChecks), r \in AuthResults : CheckAuthResolves(i, r)
  \/ \E i \in 1..Len(tbChecks) : CheckAuthRejects(i)
  \/ ClickDeployButton

SpecToolbar == InitSpecToolbar /\ [][NextToolbar]_vars

\* ------------------------------------------------------------------------
\* Dispatcher
\* ------------------------------------------------------------------------
Last(q) == q[Len(q)]

\* A step in which the dispatcher processes the message of call n.
Dispatches(n) ==
  /\ n \in 1..Len(hcalls')
  /\ hcalls'[n].status # "pending"
  /\ n \in 1..Len(hcalls) => hcalls[n].status = "pending"

HStateUnchanged == UNCHANGED <<callbacks, nextClosure, listeners, attrs, props>>

\* C13: a message whose method is none of the nine fails with "Invalid
\* method", and processing it leaves the elements and the callback
\* registry as they were.
C13_InvalidMethodRejected ==
  [][\A n \in 1..MaxMsgs :
       (Dispatches(n) /\ hcalls'[n].msg.method \notin Methods) =>
         /\ hcalls'[n].status = "rejected"
         /\ hcalls'[n].value = HError("Invalid method")
         /\ HStateUnchanged]_vars

C13_Witness ==
  \E n \in 1..Len(hcalls) :
    /\ hcalls[n].msg.method \notin Methods
    /\ hcalls[n].status = "rejected"
    /\ hcalls[n].value = HError("Invalid method")
    /\ n > 1
    /\ callbacks["k1"] # 0

\* Registrations and successful removals of key k so far.
Registrations(k) ==
  Cardinality({n \in 1..Len(inits) :
                 /\ inits[n].status = "resolved"
                 /\ k \in {inits[n].config.js_listeners,
                           inits[n].config.py_listeners}})
    + Cardinality({n \in 1..Len(hcalls) :
                     /\ hcalls[n].status = "resolved"
                     /\ hcalls[n].msg.method \in
                          {"addPythonEventListener", "addJsEventListener"}
                     /\ hcalls[n].msg.value = k})

Removals(k) ==
  Cardinality({n \in 1..Len(hcalls) :
                 /\ hcalls[n].status = "resolved"
                 /\ hcalls[n].msg.method = "removeEventListener"
                 /\ hcalls[n].msg.value = k})

\* C14: removeEventListener for a key without an entry fails with
\* "Listener is not defined" and changes nothing; for a key with an entry
\* it returns true and deletes the entry, so that a key is removed at most
\* once per registration and the next removal fails.
C14_RemoveOncePerRegistration ==
  /\ [](\A k \in Keys : Removals(k) <= Registrations(k))
  /\ [][\A n \in 1..MaxMsgs :
          (Dispatches(n) /\ hcalls'[n].msg.method = "removeEventListener") =>
            IF callbacks[hcalls'[n].msg.value] = 0
              THEN /\ hcalls'[n].status = "rejected"
                   /\ hcalls'[n].value = HError("Listener is not defined")
                   /\ HStateUnchanged
              ELSE /\ hcalls'[n].status = "resolved"
                   /\ hcalls'[n].value = True
                   /\ callbacks'[hcalls'[n].msg.value] = 0]_vars

C14_Witness ==
  \E n \in 1..(Len(hcalls) - 1) :
    /\ hcalls[n].msg.method = "removeEventListener"
    /\ hcalls[n + 1].msg = hcalls[n].msg
    /\ hcalls[n].status = "resolved"
    /\ hcalls[n + 1].status = "rejected"
    /\ hcalls[n + 1].value = HError("Listener is not defined")
    /\ Registrations(hcalls[n].msg.value) = 1

\* ------------------------------------------------------------------------
\* Registration
\* ------------------------------------------------------------------------
\* C15: a call made on the proxy of a custom element is held, not dropped:
\* it waits behind whenDefined, it is dispatched to the element and
\* completes only once the tag is defined, and once the tag is defined it
\* does complete.
C15_HeldCallsComplete ==
  /\ [](\A n \in 1..Len(hcalls) :
          Hyphenated(hcalls[n].tag) =>
            IF hcalls[n].status = "pending"
              THEN \E k \in 1..Len(awaiting) : awaiting[k] = <<"call", n>>
              ELSE /\ hcalls[n].tag \in defined
                   /\ hcalls[n].status = "resolved"
                   /\ hcalls[n].value = True)
  /\ \A n \in 1..MaxMsgs :
       (/\ n \in 1..Len(hcalls)
        /\ hcalls[n].status = "pending"
        /\ hcalls[n].tag \in defined)
         ~> (n \in 1..Len(hcalls) /\ hcalls[n].status # "pending")

C15_Witness ==
  \E n \in 1..Len(hcalls) :
    /\ hcalls[n].early
    /\ hcalls[n].status = "resolved"
    /\ hcalls[n].msg.method = "setAttribute"
    /\ attrs[ElementOf(hcalls[n].guid)] = MsgValue(hcalls[n].msg.value)

\* A step in which createElement is called.
Registers == Len(inits') = Len(inits) + 1

\* C16: createElement for a guid without a DOM element throws "No element
\* found" to its caller and adds no entry to the element registry and none
\* to the callback registry.
C16_MissingElementThrows ==
  [][(Registers /\ Last(inits').config.guid \notin dom) =>
       /\ Last(inits').thrown = HError("No element found")
       /\ elements' = elements
       /\ callbacks' = callbacks]_vars

C16_Witness ==
  \E n \in 1..Len(inits) :
    /\ inits[n].config.guid \notin dom
    /\ inits[n].config.py_listeners # "none"
    /\ inits[n].thrown = HError("No element found")
    /\ elements[inits[n].config.guid] = NoProxy
    /\ \A k \in Keys : callbacks[k] = 0

\* C17 as stated: the registry holds no proxy of a custom element whose
\* tag is not defined yet.
C17_ProxyDeferredUntilDefined ==
  \A g \in Guids :
    (elements[g] # NoProxy /\ Hyphenated(elements[g].tag)) =>
      elements[g].tag \in defined

\* C17: createElement stores the proxy at once, for a custom element too
\* and whether or not its tag is defined; what waits for the definition is
\* the rest of initialize.
C17_ProxyStoredAtOnce ==
  /\ [][(Registers /\ Last(inits').config.guid \in dom) =>
          /\ Last(inits').thrown = None
          /\ elements'[Last(inits').config.guid] =
               [tag |-> Last(inits').config.tag,
                el |-> ElementOf(Last(inits').config.guid)]]_vars
  /\ [](\A n \in 1..Len(inits) :
          (Hyphenated(inits[n].config.tag)
             /\ inits[n].config.tag \notin defined
             /\ inits[n].config.guid \in dom) =>
            inits[n].status = "pending")

C17_Witness ==
  \E n \in 1..Len(inits) :
    /\ Hyphenated(inits[n].config.tag)
    /\ inits[n].config.tag \notin defined
    /\ inits[n].status = "pending"
    /\ elements[inits[n].config.guid].tag = inits[n].config.tag

\* A step in which initialize applies the config of registration n.
Applies(n) ==
  /\ n \in 1..Len(inits')
  /\ inits'[n].target # None
  /\ n \in 1..Len(inits) => inits[n].target = None

\* Is the whole of config, as registration n, in place on element e?
Applied(config, n, e) ==
  /\ config.attributes => attrs'[e] = ConfigValue(n)
  /\ config.properties => props'[e] = ConfigValue(n)
  /\ config.js_listeners # "none" =>
       <<e, "click", callbacks'[config.js_listeners], "js">> \in listeners'
  /\ config.py_listeners # "none" =>
       <<e, "click", callbacks'[config.py_listeners], "py">> \in listeners'

\* C20: nothing is applied to an element unless a message is dispatched or
\* initialize applies a config, which for a tag with a hyphen it does only
\* once the tag is defined; for a tag without a hyphen the whole config is
\* in place on the element when createElement returns.
C20_ConfigAppliedWhenDefined ==
  /\ [][~HStateUnchanged =>
          \/ \E n \in 1..MaxMsgs : Dispatches(n)
          \/ \E n \in 1..MaxRegs :
               /\ Applies(n)
               /\ Hyphenated(inits'[n].config.tag) =>
                    inits'[n].config.tag \in defined]_vars
  /\ [](\A n \in 1..Len(inits) :
          (Hyphenated(inits[n].config.tag)
             /\ inits[n].config.tag \notin defined) =>
            /\ inits[n].target = None
            /\ \A e \in Elements :
                 attrs[e] # ConfigValue(n) /\ props[e] # ConfigValue(n))
  /\ [][(/\ Registers
         /\ Last(inits').thrown = None
         /\ ~Hyphenated(Last(inits').config.tag)) =>
          /\ Last(inits').status = "resolved"
          /\ Applied(Last(inits').config, Len(inits'),
                     ElementOf(Last(inits').config.guid))]_vars

C20_Witness ==
  \E n, m \in 1..Len(inits) :
    /\ Hyphenated(inits[n].config.tag)
    /\ inits[n].config.tag \notin defined
    /\ inits[n].config.attributes
    /\ inits[n].status = "pending"
    /\ attrs[ElementOf(inits[n].config.guid)] # ConfigValue(n)
    /\ ~Hyphenated(inits[m].config.tag)
    /\ inits[m].config.js_listeners # "none"
    /\ inits[m].status = "resolved"
    /\ attrs[ElementOf(inits[m].config.guid)] = ConfigValue(m)
    /\ Cardinality(listeners) = 2

\* ------------------------------------------------------------------------
\* Toolbar integration
\* ------------------------------------------------------------------------
\* C18: a Deploy to Cloud button exists, in the toolbar or outside it, only
\* for a check_auth request that has resolved with a truthy value (true, a
\* non-empty string, a non-zero number); a request that resolved with
\* anything else, or rejected, has no button; and a deploy dialog has been
\* shown only if a button is in the toolbar.
C18_ButtonOnlyWhenAuthenticated ==
  /\ \A b \in Buttons \cup tbDetached :
       /\ b \in 1..Len(tbChecks)
       /\ tbChecks[b].status = "resolved"
       /\ tbChecks[b].value \in
            {<<"boolean", 1>>, <<"string", 5>>, <<"number", 1>>}
  /\ tbDialogs > 0 => Buttons # {}

C18_Witness ==
  /\ Len(tbChecks) = 3
  /\ tbChecks[1].status = "resolved" /\ tbChecks[1].value = <<"boolean", 0>>
  /\ tbChecks[2].status = "rejected"
  /\ tbChecks[3].status = "resolved" /\ tbChecks[3].value = <<"boolean", 1>>
  /\ tbToolbar.children = <<3, OverflowMenu>>
  /\ tbDialogs > 0
  /\ tbLogged = 1

\* ------------------------------------------------------------------------
\* Two Broadcast calls at a time
\* ------------------------------------------------------------------------
\* Two calls on the same channel name, neither with a defaultResponse, and
\* the messages other contexts post there: for each call's correlation id
\* the reply whose value is that id, a reply with an error, and a message
\* that is no reply.
PairMsgs ==
  {m \in ChannelMsgs :
     (m.method = "reply" /\ m.error = Undefined) => m.value = <<"value", m.id>>}

InitSpecBCPair ==
  /\ frames = <<>> /\ InitFWVars /\ InitBCVars
  /\ InitHtmlUnused /\ InitToolbarUnused /\ InitDialogUnused

NextBCPair ==
  \/ \E c \in Calls :
       BCStart(c) /\ bcId'[c] = "a" /\ bcDefault'[c] = Undefined
  \/ EnvPost /\ \A c \in Calls :
                  bcInbox'[c] # bcInbox[c] => Last(bcInbox'[c]) \in PairMsgs
  \/ \E c \in Calls : BCDeliver(c)
  \/ \E c \in Calls : BCDrop(c)

SpecBCPair == InitSpecBCPair /\ [][NextBCPair]_vars

\* The reply with value v for call c.
ReplyFor(c, v) ==
  [method |-> "reply", id |-> RespId(c), value |-> v, error |-> Undefined]

\* C19: a message that is no reply, or a reply with another correlation
\* id, never settles a call; with two calls outstanding on one channel each
\* settles only with the reply that carries its own correlation id, in
\* whatever order the replies arrive.
C19_OwnReplyOnly ==
  /\ [](\A c \in Calls :
          bcOutcome[c] # Pending =>
            /\ bcReply[c].method = "reply"
            /\ bcReply[c].id = RespId(c)
            /\ bcOutcome[c] =
                 IF bcReply[c].error = Undefined
                   THEN Resolved(bcReply[c].value)
                   ELSE Rejected(NewError(bcReply[c].error)))
  /\ [][\A c \in Calls :
          (/\ bcInbox[c] # <<>>
           /\ bcInbox'[c] = Tail(bcInbox[c])
           /\ ~(Head(bcInbox[c]).method = "reply"
                  /\ Head(bcInbox[c]).id = RespId(c))) =>
            /\ bcOutcome'[c] = bcOutcome[c]
            /\ bcReply'[c] = bcReply[c]
            /\ bcPc'[c] = bcPc[c]]_vars

C19_Witness ==
  /\ bcId[1] = bcId[2]
  /\ bcPc[1] = "waiting"
  /\ bcInbox[1] = <<ReplyFor(1, <<"value", 1>>), ReplyFor(2, <<"value", 2>>)>>
  /\ bcPc[2] = "done"
  /\ bcOutcome[2] = Resolved(<<"value", 2>>)
  /\ bcInbox[2] = <<>>
  /\ \A c \in Calls : bcDropped[c] = {}

\* ------------------------------------------------------------------------
\* Interleaved registrations
\* ------------------------------------------------------------------------
\* Two elements, both in the document, registered in any order with plain
\* or custom tags, and calls on their proxies.
InterleaveConfigs ==
  [guid : Guids, tag : Tags, attributes : {TRUE}, properties : {TRUE},
   js_listeners : {"k1"}, py_listeners : {"k2"}]

InterleaveMsgs ==
  [method : {"getAttribute"}, name : {"click"}, value : {"k1"}]

InitSpecInterleave ==
  /\ frames = <<>> /\ InitFWVars /\ InitBCVars /\ InitToolbarUnused /\ InitDialogUnused
  /\ dom = Guids
  /\ defined = {}
  /\ InitHVars

NextInterleave ==
  \/ \E config \in InterleaveConfigs : CreateElement(config)
  \/ \E tag \in Tags : Define(tag)
  \/ \E guid \in Guids, msg \in InterleaveMsgs, app \in AppOutcomes :
       ProxyCall(guid, msg, app)
  \/ \E k \in 1..Len(awaiting) : ResumeInit(k)
  \/ \E k \in 1..Len(awaiting), app \in AppOutcomes : ResumeCall(k, app)

SpecInterleave == InitSpecInterleave /\ [][NextInterleave]_vars

\* C21: the config of a registration is applied to the element of its own
\* guid, and its attribute and property values appear on no other element.
C21_ConfigOnOwnElement ==
  \A n \in 1..Len(inits) :
    /\ inits[n].target # None =>
         inits[n].target = ElementOf(inits[n].config.guid)
    /\ \A e \in Elements :
         (attrs[e] = ConfigValue(n) \/ props[e] = ConfigValue(n)) =>
           e = ElementOf(inits[n].config.guid)

\* C22: when a call on a proxy is dispatched, a registration of that guid
\* and tag has its config in place on the element.
C22_ConfigBeforeDispatch ==
  [][\A n \in 1..MaxMsgs :
       Dispatches(n) =>
         \E r \in 1..Len(inits) :
           /\ inits[r].config.guid = hcalls'[n].guid
           /\ inits[r].config.tag = hcalls'[n].tag
           /\ inits[r].status = "resolved"
           /\ inits[r].target = ElementOf(hcalls'[n].guid)
           /\ attrs[ElementOf(hcalls'[n].guid)] # None]_vars

\* ------------------------------------------------------------------------
\* Callback registry
\* ------------------------------------------------------------------------
\* C23: every closure attached to an element is the value of an entry of
\* the callback registry, so that a removeEventListener request can still
\* detach it.
C23_AttachedClosuresRegistered ==
  \A l \in listeners : \E k \in Keys : callbacks[k] = l[3]

\* ------------------------------------------------------------------------
\* The Broadcast call, statement by statement
\* ------------------------------------------------------------------------
\* Other browsing contexts run in parallel with the caller: they may post
\* while proxy is between two of its statements.  What they post is queued
\* as a task of the caller's event loop.

\* const bc = new BroadcastChannel(id); ... msg.reply = respId;
BCOpenW(c) ==
  /\ bcPc[c] = "idle"
  /\ \E id \in Ids, d \in BCDefaults :
       /\ bcId' = [bcId EXCEPT ![c] = id]
       /\ bcDefault' = [bcDefault EXCEPT ![c] = d]
  /\ bcOpen' = [bcOpen EXCEPT ![c] = TRUE]
  /\ bcPc' = [bcPc EXCEPT ![c] = "opened"]
  /\ UNCHANGED <<now, posts, bcInbox, bcReply, bcHandled, bcTimer, bcArmedAt,
                 bcDropped, bcOutcome>>
  /\ UNCHANGED notBC

\* bc.postMessage(msg)
BCPostW(c) ==
  /\ bcPc[c] = "opened"
  /\ \E m \in Msgs :
       bcInbox' = [o \in Calls |->
                     IF o \in Destinations(bcId[c]) \ {c}
                       THEN Append(bcInbox[o], Request(m))
                       ELSE bcInbox[o]]
  /\ bcPc' = [bcPc EXCEPT ![c] = "posted"]
  /\ UNCHANGED <<now, posts, bcId, bcDefault, bcOpen, bcReply, bcHandled,
                 bcTimer, bcArmedAt, bcDropped, bcOutcome>>
  /\ UNCHANGED notBC

\* handleMessage sets bc.onmessage, the timer is armed, and proxy awaits.
BCListenW(c) ==
  /\ bcPc[c] = "posted"
  /\ bcTimer' = [bcTimer EXCEPT ![c] =
                   IF ArmsTimer(bcDefault[c]) THEN "armed" ELSE "none"]
  /\ bcArmedAt' = [bcArmedAt EXCEPT ![c] = now]
  /\ bcPc' = [bcPc EXCEPT ![c] = "waiting"]
  /\ UNCHANGED <<now, posts, bcId, bcDefault, bcOpen, bcInbox, bcReply,
                 bcHandled, bcDropped, bcOutcome>>
  /\ UNCHANGED notBC

\* May a task of the caller's event loop run?  Not while proxy is between
\* its statements: it runs on to its await.
Dispatchable_MidRun(pc) == TRUE

Dispatchable(pc) == pc \notin {"opened", "posted"}

\* The message event task of call c's channel runs.  Without a listener
\* the event reaches nobody.
BCDeliverW(c) ==
  /\ Dispatchable(bcPc[c])
  /\ IF bcPc[c] \in {"opened", "posted"}
       THEN /\ bcInbox[c] # <<>>
            /\ bcInbox' = [bcInbox EXCEPT ![c] = Tail(@)]
            /\ bcDropped' = [bcDropped EXCEPT ![c] =
                               IF Head(bcInbox[c]).method = "reply"
                                    /\ Head(bcInbox[c]).id = RespId(c)
                                 THEN @ \cup {Head(bcInbox[c])} ELSE @]
            /\ UNCHANGED <<now, posts, bcPc, bcId, bcDefault, bcOpen, bcReply,
                           bcHandled, bcTimer, bcArmedAt, bcOutcome>>
            /\ UNCHANGED notBC
       ELSE BCDeliver(c)

InitSpecBCWindow ==
  /\ frames = <<>> /\ InitFWVars /\ InitBCVars
  /\ InitHtmlUnused /\ InitToolbarUnused /\ InitDialogUnused

NextBCWindow ==
  \/ \E c \in Callers : BCOpenW(c)
  \/ \E c \in Callers : BCPostW(c)
  \/ \E c \in Callers : BCListenW(c)
  \/ EnvPost
  \/ \E c \in Callers : BCDeliverW(c)
  \/ \E c \in Callers : BCDrop(c)
  \/ \E c \in Callers : BCTimerFire(c)
  \/ Tick

SpecBCWindow == InitSpecBCWindow /\ [][NextBCWindow]_vars

\* C24: no message event of the channel is dispatched between publishing
\* the request and installing the listener: what is posted meanwhile stays
\* queued, and no reply with the call's correlation id is lost before the
\* call settles.
C24_ListenerBeforeDelivery ==
  /\ [](\A c \in Calls :
          bcPc[c] \in {"opened", "posted", "waiting"} => bcDropped[c] = {})
  /\ [][\A c \in Calls :
          bcPc[c] \in {"opened", "posted"} =>
            /\ Len(bcInbox'[c]) >= Len(bcInbox[c])
            /\ SubSeq(bcInbox'[c], 1, Len(bcInbox[c])) = bcInbox[c]]_vars

C24_Witness ==
  \E c \in Calls :
    /\ bcPc[c] = "posted"
    /\ bcInbox[c] = <<ReplyFor(c, <<"value", 1>>)>>

\* ------------------------------------------------------------------------
\* Claims on the Deploy to Cloud dialog
\* ------------------------------------------------------------------------

\* C25: over any sequence of OK clicks, callback and errback of the
\* deferred behind show() are called at most once between them.
C25_DeferredFiredOnce == Len(dgFires) <= 1

\* C26: while a deploy request is in flight OK and Cancel are disabled and
\* no second request is in flight; OK becomes enabled again only in the
\* step that settles the request, as Close with the success shown or as
\* Try Again with the error shown.
C26_OneDeployInFlight ==
  /\ [](/\ dgInFlight <= 1
        /\ dgInFlight = 1 => ~dgOkEnabled /\ ~dgCancelEnabled)
  /\ [][~dgOkEnabled /\ dgOkEnabled' =>
          /\ dgInFlight = 1 /\ dgInFlight' = 0
          /\ \/ dgOkText' = "Close" /\ dgStatus' = "success"
             \/ dgOkText' = "Try Again" /\ dgStatus' = "error"]_vars

\* A second request in flight, after a failed one and a click on Try Again.
C26_Witness ==
  /\ dgInFlight = 1
  /\ dgFires = <<DeployFailed>>
  /\ dgOkText = "Try Again"
  /\ ~dgOkEnabled /\ ~dgCancelEnabled

\* C27: an OK click that runs handleDeploy_ while the project, the region
\* or the service name is unset or empty rejects with 'Please fill all
\* required fields', issues no deploy request, and leaves the buttons and
\* the status section as they are.
C27_IncompleteRejected ==
  [][/\ dgClicks' = dgClicks + 1
     /\ \/ dgProject \in {"null", ""}
        \/ dgRegion \in {"null", ""}
        \/ dgName \in {"null", ""}
     => /\ dgFires' = Append(dgFires, FillFields)
        /\ dgInFlight' = dgInFlight
        /\ dgOkEnabled' = dgOkEnabled
        /\ dgCancelEnabled' = dgCancelEnabled
        /\ dgOkText' = dgOkText
        /\ dgStatus' = dgStatus]_vars

\* A click rejected for a cleared name alone, after a failed deployment
\* whose error stays shown.
C27_Witness ==
  /\ dgFires = <<DeployFailed, FillFields>>
  /\ dgName = ""
  /\ dgProject # "null" /\ dgRegion # "null"
  /\ dgStatus = "error" /\ dgOkEnabled /\ dgInFlight = 0

\* C28: once every get_regions request has settled, all with a list of
\* regions, the region select shows the regions of the project and service
\* selected now.
C28_RegionsOfSelection ==
  (/\ dgRegionReqs # <<>>
   /\ \A i \in 1..Len(dgRegionReqs) : dgRegionReqs[i].status = "resolved")
  => dgOptions = RegionsFor(dgProject, dgService)

====
